---------------------------- MODULE Spec2Model ----------------------------
(***************************************************************************)
(* Model of src/apyate.py (class ApateDecryptor): the in-place unmasking   *)
(* of a disguised file (reveal_file), the extension strip                  *)
(* (remove_mp4_extension), the per-file driver (process_file) and the      *)
(* batch driver with its confirmation gate (process_directory).            *)
(*                                                                         *)
(* Bytes are integers 0..255, file contents are sequences of bytes, path   *)
(* strings are sequences of one-character strings.  pathlib is modelled in *)
(* its POSIX flavour.                                                      *)
(***************************************************************************)
EXTENDS Integers, Sequences, FiniteSets, TLC

VARIABLES
    call,                    \* the public method invoked and its argument
    pc,                      \* position in the code
    fs,                      \* the file system: path string -> file bytes
    fs0,                     \* the file system when the call started
    file_path,               \* reveal_file / process_file: file_path
    file_size,               \* reveal_file: file_size
    mask_head_length,        \* reveal_file: mask_head_length
    original_head_position,  \* reveal_file: original_head_position
    original_head,           \* reveal_file: original_head
    new_file_size,           \* reveal_file: new_file_size
    opened,                  \* reveal_file: open() was reached for file_path
    branch,                  \* reveal_file: the return statement taken
    ret,                     \* reveal_file: the value returned
    new_path,                \* process_file / remove_mp4_extension: result
    pf_ret,                  \* process_file: the value returned
    mp4_files,               \* process_directory: mp4_files
    stats,                   \* process_directory: stats
    idx,                     \* process_directory: loop position in mp4_files
    asks,                    \* number of calls of ask_confirmation
    confirmed,               \* ask_confirmation returned True
    response,                \* ask_confirmation: response, while it asks again
    syscalls,                \* open, write, truncate and rename calls issued:
                             \* <<op, path, it did not raise>>
    processed,               \* paths handed to process_file, in order
    entry_fs                 \* the file system when the current process_file or
                             \* reveal_file call was entered

vars == <<call, pc, fs, fs0, file_path, file_size, mask_head_length,
          original_head_position, original_head, new_file_size, opened,
          branch, ret, new_path, pf_ret, mp4_files, stats, idx, asks,
          confirmed, response, syscalls, processed, entry_fs>>

revealVars == <<file_size, mask_head_length, original_head_position,
                original_head, new_file_size, opened, branch, ret>>

batchVars == <<mp4_files, stats, idx, asks, confirmed, response>>

-----------------------------------------------------------------------------
(* Bounds of the model *)

\* longest body (all bytes before the trailer) of a generated file
MaxBody == 5
\* most files in the directory of a batch run
MaxFiles == 3
\* longest generated prefix of a path handed to remove_mp4_extension
MaxPre == 4

-----------------------------------------------------------------------------
(* Sequences *)

\* all sequences over S of length at most n
SeqsUpTo(S, n) == UNION {[1..k -> S] : k \in 0..n}

\* the first n elements of s (all of s when it is shorter)
Take(s, n) == SubSeq(s, 1, IF n < Len(s) THEN n ELSE Len(s))

\* s without its first n elements
Drop(s, n) == SubSeq(s, n + 1, Len(s))

\* does s end with t
EndsWith(s, t) ==
    /\ Len(s) >= Len(t)
    /\ SubSeq(s, Len(s) - Len(t) + 1, Len(s)) = t

\* all orderings of the finite set S, as sequences without repetition
Orderings(S) ==
    {q \in [1..Cardinality(S) -> S] : \A x \in S : \E k \in DOMAIN q : q[k] = x}

-----------------------------------------------------------------------------
(* Bytes *)

\* the width of the trailer holding the mask length
mask_length_indicator_length == 4

\* struct.unpack('<I', byte_data)[0]: unsigned little-endian 32-bit
bytes_to_int(byte_data) ==
    byte_data[1] + 256 * byte_data[2] + 65536 * byte_data[3]
        + 16777216 * byte_data[4]

\* a reversal that was forgotten: the buffer as it is
reverse_byte_array_Mut(buffer) == buffer

\* bytes(reversed(buffer))
reverse_byte_array(buffer) ==
    [k \in 1..Len(buffer) |-> buffer[Len(buffer) + 1 - k]]

\* the 4-byte little-endian encoding of n (the trailer a masked file carries)
littleEndian32(n) ==
    <<n % 256, (n \div 256) % 256, (n \div 65536) % 256,
      (n \div 16777216) % 256>>

\* f.seek(pos); f.read(n): the bytes of data at offsets [pos, pos + n),
\* cut short at the end of the file
ReadAt(data, pos, n) ==
    SubSeq(data, pos + 1, IF pos + n < Len(data) THEN pos + n ELSE Len(data))

\* f.seek(0); f.write(buf): buf over the first Len(buf) bytes of data, the
\* file growing when buf is longer than data
WriteAt0(data, buf) == buf \o Drop(data, Len(buf))

\* f.truncate(size) for size <= Len(data)
Truncate(data, size) == Take(data, size)

-----------------------------------------------------------------------------
(* pathlib.PurePosixPath on path strings *)

\* str.lower() on one character of the model's alphabet
LowerChar(c) ==
    CASE c = "M" -> "m"
      [] c = "P" -> "p"
      [] c = "A" -> "a"
      [] OTHER -> c

\* str.lower()
Lower(s) == [k \in 1..Len(s) |-> LowerChar(s[k])]

\* s.split('/'): the segments between separators, empty ones included
RECURSIVE SplitSlash(_)
SplitSlash(s) ==
    IF \A k \in 1..Len(s) : s[k] # "/"
    THEN <<s>>
    ELSE LET k == CHOOSE j \in 1..Len(s) :
                      /\ s[j] = "/"
                      /\ \A h \in 1..(j - 1) : s[h] # "/"
         IN  <<SubSeq(s, 1, k - 1)>> \o SplitSlash(Drop(s, k))

\* the segments of q that pathlib keeps: empty and "." segments are dropped
RECURSIVE SelectSegs(_)
SelectSegs(q) ==
    IF q = <<>> THEN <<>>
    ELSE (IF Head(q) \in {<<>>, <<".">>} THEN <<>> ELSE <<Head(q)>>)
             \o SelectSegs(Tail(q))

\* the root of a path string: "//" for exactly two leading slashes, "/" for
\* one or for three and more, "" for a relative path
PathRoot(s) ==
    IF Len(s) >= 1 /\ s[1] = "/"
    THEN IF Len(s) >= 2 /\ s[2] = "/" /\ ~(Len(s) >= 3 /\ s[3] = "/")
         THEN <<"/", "/">>
         ELSE <<"/">>
    ELSE <<>>

\* Path(s): root and parts, with empty and "." segments dropped
ParsePath(s) == [root |-> PathRoot(s), parts |-> SelectSegs(SplitSlash(s))]

\* '/'.join(parts)
RECURSIVE JoinSlash(_)
JoinSlash(parts) ==
    IF parts = <<>> THEN <<>>
    ELSE IF Len(parts) = 1 THEN parts[1]
    ELSE parts[1] \o <<"/">> \o JoinSlash(Tail(parts))

\* str(path)
PathStr(p) ==
    IF p.root = <<>> /\ p.parts = <<>> THEN <<".">>
    ELSE p.root \o JoinSlash(p.parts)

\* path.name
PathName(p) == IF p.parts = <<>> THEN <<>> ELSE p.parts[Len(p.parts)]

\* name.rfind('.') as a 1-based position, 0 when there is no dot
RFindDot(name) ==
    IF \A k \in 1..Len(name) : name[k] # "."
    THEN 0
    ELSE CHOOSE k \in 1..Len(name) :
             /\ name[k] = "."
             /\ \A h \in (k + 1)..Len(name) : name[h] # "."

\* does the name have a suffix: a dot that is neither its first nor its
\* last character
HasSuffix(name) == 1 < RFindDot(name) /\ RFindDot(name) < Len(name)

\* path.suffix
PathSuffix(p) ==
    IF HasSuffix(PathName(p))
    THEN Drop(PathName(p), RFindDot(PathName(p)) - 1)
    ELSE <<>>

\* path.stem
PathStem(p) ==
    IF HasSuffix(PathName(p))
    THEN Take(PathName(p), RFindDot(PathName(p)) - 1)
    ELSE PathName(p)

\* path.parent
PathParent(p) ==
    IF p.parts = <<>> THEN p
    ELSE [root |-> p.root, parts |-> Take(p.parts, Len(p.parts) - 1)]

\* path / name, for a name that holds no separator
PathJoin(p, name) ==
    [root |-> p.root, parts |-> p.parts \o SelectSegs(<<name>>)]

\* the disguise suffix the code compares with
DisguiseSuffix == <<".", "m", "p", "4">>

\* path_obj.suffix.lower() == '.mp4'
SuffixMatches(s) == Lower(PathSuffix(ParsePath(s))) = DisguiseSuffix

\* the suffix compared without lower()
remove_mp4_extension_Mut(s) ==
    IF PathSuffix(ParsePath(s)) = DisguiseSuffix
    THEN PathStr(PathJoin(PathParent(ParsePath(s)), PathStem(ParsePath(s))))
    ELSE s

\* remove_mp4_extension(file_path)
remove_mp4_extension(s) ==
    IF SuffixMatches(s)
    THEN PathStr(PathJoin(PathParent(ParsePath(s)), PathStem(ParsePath(s))))
    ELSE s

-----------------------------------------------------------------------------
(* The file system *)

\* the directory the batch runs in
DIR == <<".">>

\* is the path string a directory of the model: it names DIR
IsDir(s) == PathStr(ParsePath(s)) = DIR

\* Path(s).is_file()
IsFile(s, fsys) == PathStr(ParsePath(s)) \in DOMAIN fsys

\* Path(s).exists()
Exists(s, fsys) == IsFile(s, fsys) \/ IsDir(s)

\* the file system with the bytes of the file at path replaced by data
WithData(fsys, path, data) == [fsys EXCEPT ![path] = data]

\* os.rename(src, dst) that succeeds: src is gone, dst holds its bytes (a
\* file already at dst is replaced)
Renamed(fsys, src, dst) ==
    [q \in (DOMAIN fsys \ {src}) \cup {dst} |->
        IF q = dst THEN fsys[src] ELSE fsys[q]]

-----------------------------------------------------------------------------
(* reveal_file *)

\* the value returned by every return statement but the last
ReturnFailure == FALSE

\* the size check with < for <=
FileTooSmall_Mut(size) == size < mask_length_indicator_length

\* file_size <= self.mask_length_indicator_length
FileTooSmall(size) == size <= mask_length_indicator_length

\* the mask length check with > for >=
MaskLengthInvalid_Mut(mask, size) ==
    mask <= 0 \/ mask > size - mask_length_indicator_length

\* mask_head_length <= 0 or mask_head_length >= file_size - 4
MaskLengthInvalid(mask, size) ==
    mask <= 0 \/ mask >= size - mask_length_indicator_length

\* the header position without the trailer's width
OriginalHeadPosition_Mut(size, mask) == size - mask

\* file_size - self.mask_length_indicator_length - mask_head_length
OriginalHeadPosition(size, mask) ==
    size - mask_length_indicator_length - mask

\* original_head_position < 0 or original_head_position >= file_size
HeadPositionInvalid(pos, size) == pos < 0 \/ pos >= size

\* the new size without the trailer's width
NewFileSize_Mut(size, mask) == size - mask

\* file_size - mask_head_length - self.mask_length_indicator_length
NewFileSize(size, mask) == size - mask - mask_length_indicator_length

\* the locals of reveal_file before its first statement
ResetReveal ==
    /\ file_size' = -1
    /\ mask_head_length' = -1
    /\ original_head_position' = -1
    /\ original_head' = <<>>
    /\ new_file_size' = -1
    /\ opened' = FALSE
    /\ branch' = "none"
    /\ ret' = FALSE

\* a return statement of reveal_file: the with block closes the file
Return(b, value) ==
    /\ branch' = b
    /\ ret' = value
    /\ pc' = "rv_return"

\* the call of a public method: process_directory starts with the search,
\* reveal_file and process_file with the file
Call ==
    /\ pc = "start"
    /\ call.op \in {"reveal_file", "process_file", "process_directory"}
    /\ IF call.op = "process_directory"
       THEN /\ pc' = "pd_find"
            /\ UNCHANGED <<file_path, processed, entry_fs>>
       ELSE /\ pc' = "rv_exists"
            /\ file_path' = call.arg
            /\ entry_fs' = fs
            /\ processed' = IF call.op = "process_file"
                            THEN Append(processed, call.arg)
                            ELSE processed
    /\ UNCHANGED <<call, fs, fs0, revealVars, new_path, pf_ret, batchVars,
                   syscalls>>

\* if not file_path_obj.exists(): return False
RevealExists ==
    /\ pc = "rv_exists"
    /\ IF ~Exists(file_path, fs)
       THEN Return("NotExists", ReturnFailure)
       ELSE /\ pc' = "rv_stat"
            /\ UNCHANGED <<branch, ret>>
    /\ UNCHANGED <<call, fs, fs0, file_path, file_size, mask_head_length,
                   original_head_position, original_head, new_file_size,
                   opened, new_path, pf_ret, batchVars, syscalls, processed,
                   entry_fs>>

\* file_size = stat().st_size; if file_size <= 4: return False
RevealStat ==
    /\ pc = "rv_stat"
    /\ file_size' = Len(fs[file_path])
    /\ IF FileTooSmall(Len(fs[file_path]))
       THEN Return("TooSmall", ReturnFailure)
       ELSE /\ pc' = "rv_open"
            /\ UNCHANGED <<branch, ret>>
    /\ UNCHANGED <<call, fs, fs0, file_path, mask_head_length,
                   original_head_position, original_head, new_file_size,
                   opened, new_path, pf_ret, batchVars, syscalls, processed,
                   entry_fs>>

\* with open(file_path, 'rb+') as f: the open succeeds, or raises (no
\* permission) and the except clause returns False
RevealOpen ==
    /\ pc = "rv_open"
    /\ \E raised \in BOOLEAN :
          /\ syscalls' = Append(syscalls, <<"open", file_path, ~raised>>)
          /\ IF raised
             THEN /\ Return("Exception", ReturnFailure)
                  /\ UNCHANGED opened
             ELSE /\ opened' = TRUE
                  /\ pc' = "rv_trailer"
                  /\ UNCHANGED <<branch, ret>>
    /\ UNCHANGED <<call, fs, fs0, file_path, file_size, mask_head_length,
                   original_head_position, original_head, new_file_size,
                   new_path, pf_ret, batchVars, processed, entry_fs>>

\* f.seek(-4, 2); mask_length_bytes = f.read(4); short read: return False;
\* mask_head_length = self.bytes_to_int(mask_length_bytes)
RevealTrailer ==
    /\ pc = "rv_trailer"
    /\ LET data == fs[file_path]
           mask_length_bytes ==
               ReadAt(data, Len(data) - mask_length_indicator_length,
                      mask_length_indicator_length)
       IN  IF Len(mask_length_bytes) # mask_length_indicator_length
           THEN /\ Return("TrailerReadError", ReturnFailure)
                /\ UNCHANGED mask_head_length
           ELSE /\ mask_head_length' = bytes_to_int(mask_length_bytes)
                /\ pc' = "rv_validate"
                /\ UNCHANGED <<branch, ret>>
    /\ UNCHANGED <<call, fs, fs0, file_path, file_size,
                   original_head_position, original_head, new_file_size,
                   opened, new_path, pf_ret, batchVars, syscalls, processed,
                   entry_fs>>

\* if mask_head_length <= 0 or mask_head_length >= file_size - 4:
\*     return False
RevealValidate ==
    /\ pc = "rv_validate"
    /\ IF MaskLengthInvalid(mask_head_length, file_size)
       THEN Return("InvalidMaskLength", ReturnFailure)
       ELSE /\ pc' = "rv_offset"
            /\ UNCHANGED <<branch, ret>>
    /\ UNCHANGED <<call, fs, fs0, file_path, file_size, mask_head_length,
                   original_head_position, original_head, new_file_size,
                   opened, new_path, pf_ret, batchVars, syscalls, processed,
                   entry_fs>>

\* original_head_position = file_size - 4 - mask_head_length; out of the
\* file: return False
RevealOffset ==
    /\ pc = "rv_offset"
    /\ original_head_position' =
           OriginalHeadPosition(file_size, mask_head_length)
    /\ IF HeadPositionInvalid(
              OriginalHeadPosition(file_size, mask_head_length), file_size)
       THEN Return("InvalidHeaderOffset", ReturnFailure)
       ELSE /\ pc' = "rv_header"
            /\ UNCHANGED <<branch, ret>>
    /\ UNCHANGED <<call, fs, fs0, file_path, file_size, mask_head_length,
                   original_head, new_file_size, opened, new_path, pf_ret,
                   batchVars, syscalls, processed,
                   entry_fs>>

\* f.seek(original_head_position); original_head = f.read(mask_head_length);
\* short read: return False; new_file_size = file_size - mask_head_length - 4
RevealHeader ==
    /\ pc = "rv_header"
    /\ LET head == ReadAt(fs[file_path], original_head_position,
                          mask_head_length)
       IN  /\ original_head' = head
           /\ IF Len(head) # mask_head_length
              THEN /\ Return("HeaderReadError", ReturnFailure)
                   /\ UNCHANGED new_file_size
              ELSE /\ new_file_size' =
                          NewFileSize(file_size, mask_head_length)
                   /\ pc' = "rv_write"
                   /\ UNCHANGED <<branch, ret>>
    /\ UNCHANGED <<call, fs, fs0, file_path, file_size, mask_head_length,
                   original_head_position, opened, new_path, pf_ret,
                   batchVars, syscalls, processed,
                   entry_fs>>

\* f.seek(0); f.write(self.reverse_byte_array(original_head)): all n bytes
\* reach the file, or an I/O error is raised after the first n < Len went
\* out and the except clause returns False
RevealWrite ==
    /\ pc = "rv_write"
    /\ \E n \in 0..Len(original_head) :
          /\ fs' = WithData(fs, file_path,
                       WriteAt0(fs[file_path],
                                Take(reverse_byte_array(original_head), n)))
          /\ syscalls' = Append(syscalls,
                 <<"write", file_path, n = Len(original_head)>>)
          /\ IF n = Len(original_head)
             THEN /\ pc' = "rv_truncate"
                  /\ UNCHANGED <<branch, ret>>
             ELSE Return("Exception", ReturnFailure)
    /\ UNCHANGED <<call, fs0, file_path, file_size, mask_head_length,
                   original_head_position, original_head, new_file_size,
                   opened, new_path, pf_ret, batchVars, processed,
                   entry_fs>>

\* f.truncate(new_file_size); return True: or the truncate raises and the
\* except clause returns False
RevealTruncate ==
    /\ pc = "rv_truncate"
    /\ \E raised \in BOOLEAN :
          /\ syscalls' = Append(syscalls, <<"truncate", file_path, ~raised>>)
          /\ IF raised
             THEN /\ Return("Exception", ReturnFailure)
                  /\ UNCHANGED fs
             ELSE /\ fs' = WithData(fs, file_path,
                              Truncate(fs[file_path], new_file_size))
                  /\ Return("Success", TRUE)
    /\ UNCHANGED <<call, fs0, file_path, file_size, mask_head_length,
                   original_head_position, original_head, new_file_size,
                   opened, new_path, pf_ret, batchVars, processed,
                   entry_fs>>

\* reveal_file hands its result to its caller
RevealReturn ==
    /\ pc = "rv_return"
    /\ pc' = IF call.op = "reveal_file" THEN "done" ELSE "pf_result"
    /\ UNCHANGED <<call, fs, fs0, file_path, revealVars, new_path, pf_ret,
                   batchVars, syscalls, processed,
                   entry_fs>>

-----------------------------------------------------------------------------
(* process_file *)

\* can os.rename(src, dst) succeed at all: not when dst is a directory
RenamePossible(src, dst) == ~IsDir(dst)

\* True returned whether the rename raised or not
RenameResult_Mut(ok) == TRUE

\* process_file returns True after a rename that did not raise, False after
\* one that did
RenameResult(ok) == ok

\* if self.reveal_file(file_path): new_path = remove_mp4_extension(file_path)
\* else: return False
ProcessFileResult ==
    /\ pc = "pf_result"
    /\ IF ret
       THEN /\ new_path' = remove_mp4_extension(file_path)
            /\ pc' = "pf_rename"
            /\ UNCHANGED pf_ret
       ELSE /\ pf_ret' = FALSE
            /\ pc' = "pf_return"
            /\ UNCHANGED new_path
    /\ UNCHANGED <<call, fs, fs0, file_path, revealVars, batchVars, syscalls,
                   processed,
                   entry_fs>>

\* try: Path(file_path).rename(new_path); return True
\* except Exception: return False
\* The rename raises when new_path is a directory, may raise for any cause
\* of the environment (a target that exists, on Windows; no permission) and
\* otherwise moves the file, replacing a file already at new_path (POSIX).
ProcessFileRename ==
    /\ pc = "pf_rename"
    /\ \E ok \in BOOLEAN :
          /\ ok => RenamePossible(file_path, new_path)
          /\ fs' = IF ok THEN Renamed(fs, file_path, new_path) ELSE fs
          /\ syscalls' = Append(syscalls, <<"rename", file_path, ok>>)
          /\ pf_ret' = RenameResult(ok)
    /\ pc' = "pf_return"
    /\ UNCHANGED <<call, fs0, file_path, revealVars, new_path, batchVars,
                   processed,
                   entry_fs>>

\* process_file hands its result to its caller
ProcessFileReturn ==
    /\ pc = "pf_return"
    /\ pc' = IF call.op = "process_file" THEN "done" ELSE "pd_count"
    /\ UNCHANGED <<call, fs, fs0, file_path, revealVars, new_path, pf_ret,
                   batchVars, syscalls, processed,
                   entry_fs>>

-----------------------------------------------------------------------------
(* process_directory *)

\* fnmatch of a file name against '*.mp4' (rglob, case-sensitive)
GlobMatches(s) == EndsWith(PathName(ParsePath(s)), DisguiseSuffix)

\* find_all_mp4_files(root_path): the lists it can return; rglob yields the
\* directory's entries in no particular order
find_all_mp4_files(root_path, fsys) ==
    IF IsFile(root_path, fsys)
    THEN IF SuffixMatches(root_path)
         THEN {<<PathStr(ParsePath(root_path))>>}
         ELSE {<<>>}
    ELSE IF IsDir(root_path)
    THEN Orderings({q \in DOMAIN fsys : GlobMatches(q)})
    ELSE {<<>>}

\* response = input(...).strip().upper() on the lines the model types
StripUpper(line) ==
    CASE line = "y" -> "Y"
      [] line = " yes " -> "YES"
      [] line = "n" -> "N"
      [] line = "no" -> "NO"
      [] line = " " -> ""
      [] OTHER -> line

\* response == 'Y' or response == 'YES'
IsYes(r) == r = "Y" \/ r = "YES"

\* response == 'N' or response == 'NO'
IsNo(r) == r = "N" \/ r = "NO"

\* the lines the user may type at the prompt
Lines == {"Y", "y", " yes ", "N", "n", "no", "", " ", "maybe"}

\* mp4_files = self.find_all_mp4_files(dir_path); stats['total'] = len(...);
\* if not mp4_files: return stats
ProcessDirectoryFind ==
    /\ pc = "pd_find"
    /\ \E found \in find_all_mp4_files(call.arg, fs) :
          /\ mp4_files' = found
          /\ stats' = [stats EXCEPT !.total = Len(found)]
          /\ pc' = IF found = <<>> THEN "done" ELSE "pd_confirm"
    /\ UNCHANGED <<call, fs, fs0, file_path, revealVars, new_path, pf_ret,
                   idx, asks, confirmed, response, syscalls, processed,
                   entry_fs>>

\* the call self.ask_confirmation(dir_path, stats['total'], mp4_files): the
\* preview and the warning are printed
AskConfirmation ==
    /\ pc = "pd_confirm"
    /\ asks' = asks + 1
    /\ pc' = "ask_input"
    /\ UNCHANGED <<call, fs, fs0, file_path, revealVars, new_path, pf_ret,
                   mp4_files, stats, idx, confirmed, response, syscalls,
                   processed,
                   entry_fs>>

\* while True: response = input(); Y/YES: return True; N/NO: return False;
\* anything else: ask again.  The local response is gone on return.
AskInput ==
    /\ pc = "ask_input"
    /\ \E line \in Lines :
          IF IsYes(StripUpper(line)) \/ IsNo(StripUpper(line))
          THEN /\ confirmed' = IsYes(StripUpper(line))
               /\ response' = ""
               /\ pc' = "pd_gate"
          ELSE /\ response' = StripUpper(line)
               /\ pc' = "ask_input"
               /\ UNCHANGED confirmed
    /\ UNCHANGED <<call, fs, fs0, file_path, revealVars, new_path, pf_ret,
                   mp4_files, stats, idx, asks, syscalls, processed,
                   entry_fs>>

\* the answer never looked at
GateOpen_Mut(answer) == TRUE

\* the files are processed when ask_confirmation returned True
GateOpen(answer) == answer

\* if not self.ask_confirmation(...): return stats
ProcessDirectoryGate ==
    /\ pc = "pd_gate"
    /\ IF GateOpen(confirmed)
       THEN /\ idx' = 1
            /\ pc' = "pd_loop"
       ELSE /\ pc' = "done"
            /\ UNCHANGED idx
    /\ UNCHANGED <<call, fs, fs0, file_path, revealVars, new_path, pf_ret,
                   mp4_files, stats, asks, confirmed, response, syscalls,
                   processed,
                   entry_fs>>

\* for i, file_path in enumerate(mp4_files, 1): self.process_file(file_path);
\* after the last one: return stats
ProcessDirectoryLoop ==
    /\ pc = "pd_loop"
    /\ IF idx > Len(mp4_files)
       THEN /\ pc' = "done"
            /\ UNCHANGED <<file_path, revealVars, processed, entry_fs>>
       ELSE /\ file_path' = mp4_files[idx]
            /\ entry_fs' = fs
            /\ processed' = Append(processed, mp4_files[idx])
            /\ ResetReveal
            /\ pc' = "rv_exists"
    /\ UNCHANGED <<call, fs, fs0, new_path, pf_ret, batchVars, syscalls>>

\* if self.process_file(file_path): stats['success'] += 1
\* else: stats['failed'] += 1
ProcessDirectoryCount ==
    /\ pc = "pd_count"
    /\ stats' = IF pf_ret
                THEN [stats EXCEPT !.success = @ + 1]
                ELSE [stats EXCEPT !.failed = @ + 1]
    /\ idx' = idx + 1
    /\ pc' = "pd_loop"
    /\ UNCHANGED <<call, fs, fs0, file_path, revealVars, new_path, pf_ret,
                   mp4_files, asks, confirmed, response, syscalls, processed,
                   entry_fs>>

\* the call remove_mp4_extension(path) on its own
StripCall ==
    /\ pc = "start"
    /\ call.op = "remove_mp4_extension"
    /\ new_path' = remove_mp4_extension(call.arg)
    /\ pc' = "done"
    /\ UNCHANGED <<call, fs, fs0, file_path, revealVars, pf_ret, batchVars,
                   syscalls, processed,
                   entry_fs>>

-----------------------------------------------------------------------------
(* Initial states *)

\* the byte values generated file bodies are made of
BodyBytes == {1, 2, 3, 153}

\* the trailers of generated files: every length up to one past the longest
\* body, and two values whose upper bytes are set
Trailers ==
    {littleEndian32(n) : n \in 0..(MaxBody + 1)}
        \cup {<<0, 1, 0, 0>>, <<0, 0, 0, 1>>, <<255, 255, 255, 127>>}

\* the generated file contents: files too short for a trailer, and a body
\* followed by a trailer
Contents ==
    SeqsUpTo(BodyBytes \cup {0}, 3)
        \cup {b \o t : b \in SeqsUpTo(BodyBytes, MaxBody), t \in Trailers}

\* the file names of the batch directory
NameA == <<"a">>
NameAMp4 == <<"a", ".", "m", "p", "4">>
NameAMp4Mp4 == <<"a", ".", "m", "p", "4", ".", "m", "p", "4">>
NameBMp4 == <<"b", ".", "m", "p", "4">>
NameDotDotMp4 == <<".", ".", "m", "p", "4">>
Names == {NameA, NameAMp4, NameAMp4Mp4, NameBMp4, NameDotDotMp4}

\* the file contents of the batch directory: a masked file and a file with
\* an out-of-range trailer
Masked == <<153, 153, 3, 2, 1, 3, 0, 0, 0>>
Corrupted == <<7, 8, 9, 0, 0, 0>>
BatchContents == {Masked, Corrupted}

InitLocals ==
    /\ pc = "start"
    /\ file_path = <<>>
    /\ file_size = -1
    /\ mask_head_length = -1
    /\ original_head_position = -1
    /\ original_head = <<>>
    /\ new_file_size = -1
    /\ opened = FALSE
    /\ branch = "none"
    /\ ret = FALSE
    /\ new_path = <<>>
    /\ pf_ret = FALSE
    /\ mp4_files = <<>>
    /\ stats = [total |-> 0, success |-> 0, failed |-> 0, skipped |-> 0]
    /\ idx = 0
    /\ asks = 0
    /\ confirmed = FALSE
    /\ response = ""
    /\ syscalls = <<>>
    /\ processed = <<>>
    /\ entry_fs = <<>>

\* process_directory or process_file on a directory of at most MaxFiles
\* files
Init ==
    /\ \E S \in SUBSET Names :
          /\ Cardinality(S) <= MaxFiles
          /\ fs \in [S -> BatchContents]
    /\ fs0 = fs
    /\ call \in [op : {"process_directory"}, arg : {DIR} \cup Names]
                    \cup [op : {"process_file"}, arg : Names]
    /\ InitLocals

\* reveal_file on one file of generated content, or on a missing file
InitReveal ==
    /\ fs \in [{NameAMp4} -> Contents] \cup {<<>>}
    /\ fs0 = fs
    /\ call = [op |-> "reveal_file", arg |-> NameAMp4]
    /\ InitLocals

\* the endings of generated path strings
Endings ==
    { <<>>,
      <<".", "m", "p", "4">>,
      <<".", "M", "P", "4">>,
      <<".", "m", "P", "4">>,
      <<".", "b", ".", "m", "p", "4">>,
      <<".", "m", "p", "4", ".", "b">>,
      <<".", "m", "p", "4", "/">>,
      <<".", "m", "p", "4", ".">>,
      <<".", "m", "p">>,
      <<"m", "p", "4">> }

\* the generated path strings
PathStrings ==
    {pre \o e : pre \in SeqsUpTo({"a", ".", "/"}, MaxPre), e \in Endings}

\* remove_mp4_extension on a generated path string
InitStrip ==
    /\ fs = <<>>
    /\ fs0 = fs
    /\ call \in [op : {"remove_mp4_extension"}, arg : PathStrings]
    /\ InitLocals

-----------------------------------------------------------------------------
(* Specifications *)

Next ==
    \/ Call
    \/ RevealExists
    \/ RevealStat
    \/ RevealOpen
    \/ RevealTrailer
    \/ RevealValidate
    \/ RevealOffset
    \/ RevealHeader
    \/ RevealWrite
    \/ RevealTruncate
    \/ RevealReturn
    \/ ProcessFileResult
    \/ ProcessFileRename
    \/ ProcessFileReturn
    \/ ProcessDirectoryFind
    \/ AskConfirmation
    \/ AskInput
    \/ ProcessDirectoryGate
    \/ ProcessDirectoryLoop
    \/ ProcessDirectoryCount

\* the batch and single-file drivers on a small directory
Spec == Init /\ [][Next]_vars

NextReveal ==
    \/ Call
    \/ RevealExists
    \/ RevealStat
    \/ RevealOpen
    \/ RevealTrailer
    \/ RevealValidate
    \/ RevealOffset
    \/ RevealHeader
    \/ RevealWrite
    \/ RevealTruncate
    \/ RevealReturn

\* reveal_file alone, on generated file contents
SpecReveal == InitReveal /\ [][NextReveal]_vars

NextStrip == StripCall

\* remove_mp4_extension alone, on generated path strings
SpecStrip == InitStrip /\ [][NextStrip]_vars

-----------------------------------------------------------------------------
(* What the claims speak of, stated on the input file and not on the    *)
(* locals of the code                                                   *)

\* the file reveal_file is called on in SpecReveal
F == NameAMp4

\* the bytes of F when reveal_file was called
Input == fs0[F]

\* the unsigned little-endian 32-bit value of four bytes
LE32Value(b) == b[1] + 256 * (b[2] + 256 * (b[3] + 256 * b[4]))

\* the fileSize and maskLength of a file of more than four bytes
FileSizeOf(data) == Len(data)
MaskLengthOf(data) == LE32Value(SubSeq(data, Len(data) - 3, Len(data)))

\* the file passes validation: fileSize > 4 and 0 < maskLength < fileSize - 4
Accepted(data) ==
    /\ FileSizeOf(data) > 4
    /\ 0 < MaskLengthOf(data)
    /\ MaskLengthOf(data) < FileSizeOf(data) - 4

\* the Disguised Header: the bytes at [fileSize - 4 - maskLength, fileSize - 4)
DisguisedHeader(data) ==
    SubSeq(data, FileSizeOf(data) - 4 - MaskLengthOf(data) + 1,
           FileSizeOf(data) - 4)

\* the bytes before the Disguised Header
TailOf(data) == SubSeq(data, 1, FileSizeOf(data) - 4 - MaskLengthOf(data))

\* the byte reversal, written out on its own
Reversed(b) == [k \in 1..Len(b) |-> b[Len(b) - k + 1]]

\* reveal_file was called on an existing file and has returned
Returned == pc = "done" /\ F \in DOMAIN fs0

\* an I/O error was raised during the call
IOError == branch = "Exception"

\* the write step was reached
WriteReached == \E k \in DOMAIN syscalls : syscalls[k][1] = "write"

\* a write or a truncate was issued
Mutating == \E k \in DOMAIN syscalls : syscalls[k][1] \in {"write", "truncate"}

-----------------------------------------------------------------------------
(* C1 *)

\* C1 as stated: for a non-empty orig of length L and any tail, reveal_file
\* on tail || reverse(orig) || littleEndian32(L) succeeds (no I/O error
\* being raised) and leaves exactly orig || tail, so the bytes
\* 99 99 03 02 01 03 00 00 00 become 99 99 01 02 03.  It is stated here for
\* the non-empty tails alone, where the file is accepted.
C1_RoundTripAsStated ==
    (/\ Returned
     /\ ~IOError
     /\ FileSizeOf(Input) > 4
     /\ MaskLengthOf(Input) \in 1..(FileSizeOf(Input) - 5))
    => LET orig == Reversed(DisguisedHeader(Input))
           tail == TailOf(Input)
       IN  /\ Input = tail \o Reversed(orig) \o littleEndian32(Len(orig))
           /\ ret = TRUE
           /\ fs[F] = orig \o tail
           /\ Len(fs[F]) = Len(orig) + Len(tail)

\* C1 amended: for a non-empty orig of length L and a non-empty tail,
\* reveal_file on tail || reverse(orig) || littleEndian32(L) succeeds (no I/O
\* error being raised) and leaves a file of len(tail) bytes: orig written
\* over the first L bytes of tail, cut to len(tail) bytes.  With an empty
\* tail the file is rejected and left as it was.  The bytes
\* 99 99 03 02 01 03 00 00 00 become 01 02.
C1_RoundTrip ==
    (/\ Returned
     /\ ~IOError
     /\ FileSizeOf(Input) > 4
     /\ MaskLengthOf(Input) \in 1..(FileSizeOf(Input) - 4))
    => LET orig == Reversed(DisguisedHeader(Input))
           tail == TailOf(Input)
       IN  /\ Input = tail \o Reversed(orig) \o littleEndian32(Len(orig))
           /\ IF tail = <<>>
              THEN ret = FALSE /\ fs[F] = Input
              ELSE /\ ret = TRUE
                   /\ Len(fs[F]) = Len(tail)
                   /\ fs[F] = Take(orig \o Drop(tail, Len(orig)), Len(tail))
           /\ Input = <<153, 153, 3, 2, 1, 3, 0, 0, 0>> => fs[F] = <<1, 2>>

\* the masked bytes 99 99 03 02 01 03 00 00 00 were unmasked to 01 02
C1_Witness ==
    /\ Returned
    /\ ret = TRUE
    /\ Input = <<153, 153, 3, 2, 1, 3, 0, 0, 0>>
    /\ fs[F] = <<1, 2>>

-----------------------------------------------------------------------------
(* C2 *)

\* C2: a file of at most 4 bytes, or whose trailer violates
\* 0 < maskLength < fileSize - 4, is never written or truncated: at every
\* point of the call its bytes are those of the input, neither the write nor
\* the truncate step is reached, and the call returns False (an exception
\* raised on the way is caught and turned into False).
C2_NoMutationOnRejection ==
    (F \in DOMAIN fs0 /\ ~Accepted(Input))
    => /\ fs = fs0
       /\ ~Mutating
       /\ pc \notin {"rv_write", "rv_truncate"}
       /\ pc \in {"rv_return", "done"} => ret = FALSE
       /\ branch # "Success"

\* a file of more than 4 bytes with an out-of-range trailer was rejected
C2_Witness ==
    /\ Returned
    /\ FileSizeOf(Input) > 4
    /\ ~Accepted(Input)
    /\ branch = "InvalidMaskLength"
    /\ ret = FALSE
    /\ fs = fs0

-----------------------------------------------------------------------------
(* C3 *)

\* C3: once reveal_file has returned, a file of at most 4 bytes was rejected
\* in the TooSmall branch with the file never opened (and only such files
\* are); a longer file whose trailer is 0 or at least fileSize - 4 was
\* rejected in the InvalidMaskLength branch, unless opening it raised; a
\* longer file with 0 < maskLength < fileSize - 4 reached the write step,
\* unless opening it raised.
C3_AcceptanceBoundary ==
    Returned
    => /\ FileSizeOf(Input) <= 4 <=> branch = "TooSmall"
       /\ branch = "TooSmall" => ~opened
       /\ (FileSizeOf(Input) > 4 /\ ~Accepted(Input))
              => branch \in {"InvalidMaskLength", "Exception"}
       /\ (FileSizeOf(Input) > 4 /\ ~Accepted(Input) /\ opened)
              => branch = "InvalidMaskLength"
       /\ branch = "InvalidMaskLength"
              => (FileSizeOf(Input) > 4 /\ ~Accepted(Input))
       /\ Accepted(Input) => (opened <=> WriteReached)

\* a file whose trailer is exactly fileSize - 4 was rejected as
\* InvalidMaskLength
C3_Witness ==
    /\ Returned
    /\ FileSizeOf(Input) > 4
    /\ MaskLengthOf(Input) = FileSizeOf(Input) - 4
    /\ branch = "InvalidMaskLength"

-----------------------------------------------------------------------------
(* C4 *)

\* C4 as stated: after a successful reveal_file the file has
\* fileSize - maskLength - 4 bytes, its first maskLength bytes are the
\* reversal of the Disguised Header, and every byte left at an offset
\* >= maskLength is the input byte at that offset.
C4_RestoredShapeAsStated ==
    (Returned /\ ret = TRUE)
    => /\ Len(fs[F]) = FileSizeOf(Input) - MaskLengthOf(Input) - 4
       /\ Len(fs[F]) >= MaskLengthOf(Input)
       /\ SubSeq(fs[F], 1, MaskLengthOf(Input))
              = Reversed(DisguisedHeader(Input))
       /\ \A k \in 1..Len(fs[F]) :
              k > MaskLengthOf(Input) => fs[F][k] = Input[k]

\* C4 amended: after a successful reveal_file the file has
\* newSize = fileSize - maskLength - 4 bytes, its first min(maskLength,
\* newSize) bytes are the first bytes of the reversal of the Disguised
\* Header, and every byte left at an offset >= maskLength is the input byte
\* at that offset.
C4_RestoredShape ==
    (Returned /\ ret = TRUE)
    => /\ Len(fs[F]) = FileSizeOf(Input) - MaskLengthOf(Input) - 4
       /\ \A k \in 1..Len(fs[F]) :
              fs[F][k] = IF k <= MaskLengthOf(Input)
                         THEN Reversed(DisguisedHeader(Input))[k]
                         ELSE Input[k]

\* a file was unmasked whose restored header is followed by a remainder
C4_Witness ==
    /\ Returned
    /\ ret = TRUE
    /\ MaskLengthOf(Input) >= 2
    /\ Len(fs[F]) > MaskLengthOf(Input)
    /\ DisguisedHeader(Input) # Reversed(DisguisedHeader(Input))

-----------------------------------------------------------------------------
(* C5 *)

\* C5 as stated: when an I/O error is raised during the write or the
\* truncate, the value reveal_file returns differs from the value it returns
\* for a validation failure.
C5_PartialWriteDistinct ==
    (Returned /\ IOError /\ Mutating) => ret # ReturnFailure

-----------------------------------------------------------------------------
(* C10 *)

\* C10: once the size check and the maskLength check have passed,
\* headerOffset = fileSize - 4 - maskLength, it equals newSize and
\* 1 <= headerOffset < fileSize; the InvalidHeaderOffset, TrailerReadError
\* and HeaderReadError branches are never taken; a successful unmask leaves
\* at least one byte.
C10_OffsetArithmetic ==
    /\ branch \notin {"InvalidHeaderOffset", "TrailerReadError",
                      "HeaderReadError"}
    /\ pc \in {"rv_header", "rv_write", "rv_truncate"}
       => /\ Accepted(Input)
          /\ original_head_position
                 = FileSizeOf(Input) - 4 - MaskLengthOf(Input)
          /\ 1 <= original_head_position
          /\ original_head_position < FileSizeOf(Input)
    /\ pc \in {"rv_write", "rv_truncate"}
       => /\ new_file_size = original_head_position
          /\ Len(original_head) = MaskLengthOf(Input)
    /\ (Returned /\ ret = TRUE)
       => /\ Len(fs[F]) = original_head_position
          /\ Len(fs[F]) >= 1

\* the smallest header offset: a validated file with headerOffset = 1 is
\* about to be truncated to one byte
C10_Witness ==
    /\ pc = "rv_truncate"
    /\ original_head_position = 1
    /\ new_file_size = 1

-----------------------------------------------------------------------------
(* C6 *)

\* the path string in pathlib's spelling: no empty or "." segment, no
\* repeated or trailing separator
Normal(s) == PathStr(ParsePath(s))

\* the final component of the path has the disguise suffix, compared
\* case-insensitively, after at least one other character
HasDisguiseSuffix(s) ==
    LET name == PathName(ParsePath(s))
    IN  /\ Len(name) >= 5
        /\ Lower(SubSeq(name, Len(name) - 3, Len(name))) = DisguiseSuffix

\* s without its last four characters
WithoutSuffix(s) == SubSeq(s, 1, Len(s) - 4)

\* remove_mp4_extension has returned
Stripped == pc = "done" /\ call.op = "remove_mp4_extension"

\* C6 as stated: the result for a path with the disguise suffix is the same
\* path with that one suffix removed, every preceding segment kept, and for
\* any other path the input.  It is stated here for the path strings that
\* end with their final component, where removing the suffix from the string
\* is meaningful, and whose final component is more than "." and the suffix.
C6_StripAsStated ==
    (/\ Stripped
     /\ EndsWith(call.arg, PathName(ParsePath(call.arg)))
     /\ Lower(PathName(ParsePath(call.arg))) # NameDotDotMp4)
    => new_path = IF HasDisguiseSuffix(call.arg)
                  THEN WithoutSuffix(call.arg)
                  ELSE call.arg

\* C6 amended: the result for a path with the disguise suffix is pathlib's
\* spelling of the path with that one suffix removed (earlier extensions and
\* named segments kept; "." segments, repeated and trailing separators
\* dropped), which is the input string without its suffix when the input is
\* in pathlib's spelling and its final component is not "..mp4"; for any
\* other path it is the input; no file is touched.
C6_Strip ==
    Stripped
    => /\ new_path = IF HasDisguiseSuffix(call.arg)
                     THEN Normal(WithoutSuffix(Normal(call.arg)))
                     ELSE call.arg
       /\ (/\ HasDisguiseSuffix(call.arg)
           /\ Normal(call.arg) = call.arg
           /\ Lower(PathName(ParsePath(call.arg))) # NameDotDotMp4)
          => new_path = WithoutSuffix(call.arg)
       /\ fs = fs0
       /\ syscalls = <<>>

\* a/a.b.mp4 was stripped to a/a.b
C6_Witness ==
    /\ Stripped
    /\ call.arg = <<"a", "/", "a", ".", "b", ".", "m", "p", "4">>
    /\ new_path = <<"a", "/", "a", ".", "b">>

-----------------------------------------------------------------------------
(* C7 *)

\* the candidates of a batch run in DIR, by the name they had at the start
Candidates == {q \in DOMAIN fs0 : GlobMatches(q)}
ValidCandidates == {q \in Candidates : Accepted(fs0[q])}
RejectedCandidates == Candidates \ ValidCandidates

\* no system call of the run raised
NoErrorRaised == \A k \in DOMAIN syscalls : syscalls[k][3]

\* a confirmed batch run over DIR has returned
BatchDone ==
    /\ pc = "done"
    /\ call = [op |-> "process_directory", arg |-> DIR]
    /\ confirmed

\* C7 as stated: a confirmed run over n validly masked and m rejected
\* candidates, in which no system call raises, processes every candidate
\* exactly once, returns total = n + m, success = n, failed = m, and leaves
\* every rejected file byte-identical to its input.
C7_BatchIndependence ==
    (BatchDone /\ NoErrorRaised)
    => /\ stats.total = Cardinality(Candidates)
       /\ stats.success = Cardinality(ValidCandidates)
       /\ stats.failed = Cardinality(RejectedCandidates)
       /\ stats.success + stats.failed = stats.total
       /\ Len(processed) = Cardinality(Candidates)
       /\ \A q \in Candidates : \E k \in DOMAIN processed : processed[k] = q
       /\ \A q \in RejectedCandidates : q \in DOMAIN fs /\ fs[q] = fs0[q]

\* no candidate's new name is the name of a file of the directory
NoNameCollision ==
    \A q \in Candidates : remove_mp4_extension(q) \notin DOMAIN fs0

\* what holds of C7: the same, for the runs in which no candidate's new name
\* is the name of a file already in the directory
C7_WithoutNameCollision ==
    (BatchDone /\ NoErrorRaised /\ NoNameCollision)
    => /\ stats.total = Cardinality(Candidates)
       /\ stats.success = Cardinality(ValidCandidates)
       /\ stats.failed = Cardinality(RejectedCandidates)
       /\ Len(processed) = Cardinality(Candidates)
       /\ \A q \in Candidates : \E k \in DOMAIN processed : processed[k] = q
       /\ \A q \in RejectedCandidates : q \in DOMAIN fs /\ fs[q] = fs0[q]

-----------------------------------------------------------------------------
(* C8 *)

\* the number of candidates find_all_mp4_files is to find for the argument
NumCandidates ==
    IF call.arg = DIR THEN Cardinality(Candidates)
    ELSE IF call.arg \in DOMAIN fs0 /\ HasDisguiseSuffix(call.arg) THEN 1
    ELSE 0

\* C8: in process_directory the confirmation is asked at most once and only
\* after the candidates were enumerated; as long as the user has not
\* confirmed no file is opened, written, truncated or renamed and no file is
\* handed to process_file; when the run ends without confirmation (declined,
\* or no candidate found) the file system is as it was and the stats are
\* success = 0, failed = 0, total = the number of candidates.
C8_ConfirmationGate ==
    call.op = "process_directory"
    => /\ asks <= 1
       /\ asks = 1 => (mp4_files # <<>> /\ stats.total = Len(mp4_files))
       /\ (mp4_files = <<>> /\ pc # "pd_find" /\ pc # "start")
              => (asks = 0 /\ pc = "done")
       /\ ~confirmed
              => /\ fs = fs0
                 /\ syscalls = <<>>
                 /\ processed = <<>>
                 /\ stats.success = 0
                 /\ stats.failed = 0
       /\ (pc = "done" /\ ~confirmed) => stats.total = NumCandidates

\* the user declined a batch of two candidates
C8_Witness ==
    /\ pc = "done"
    /\ call.op = "process_directory"
    /\ asks = 1
    /\ ~confirmed
    /\ stats.total = 2
    /\ fs = fs0

-----------------------------------------------------------------------------
(* C9 *)

\* the last system call issued, when there is one
LastCall == syscalls[Len(syscalls)]

\* process_file is about to return
FileDone == pc = "pf_return"

\* the rename of this process_file call raised
RenameRaised ==
    /\ syscalls # <<>>
    /\ LastCall = <<"rename", file_path, FALSE>>

\* the unmask of this process_file call was cut by an I/O error raised by
\* the write or the truncate
CutByIOError ==
    /\ branch = "Exception"
    /\ syscalls # <<>>
    /\ LastCall \in {<<"write", file_path, FALSE>>,
                     <<"truncate", file_path, FALSE>>}

\* the Restored File of an accepted file
RestoredOf(data) ==
    [k \in 1..(FileSizeOf(data) - MaskLengthOf(data) - 4) |->
        IF k <= MaskLengthOf(data)
        THEN Reversed(DisguisedHeader(data))[k]
        ELSE data[k]]

\* what C9 says of the rename: it follows a successful unmask, True is
\* returned only after both, and a rename that raised leaves False and the
\* restored content under the disguised name
C9_RenameOrdering ==
    /\ pc = "pf_rename" => ret = TRUE
    /\ \A k \in DOMAIN syscalls :
           syscalls[k][1] = "rename"
           => /\ k > 1
              /\ syscalls[k - 1] = <<"truncate", syscalls[k][2], TRUE>>
    /\ (FileDone /\ pf_ret)
           => (ret /\ LastCall = <<"rename", file_path, TRUE>>)
    /\ (FileDone /\ ret /\ RenameRaised)
           => /\ pf_ret = FALSE
              /\ DOMAIN fs = DOMAIN entry_fs
              /\ fs[file_path] = RestoredOf(entry_fs[file_path])
              /\ Len(fs[file_path]) < Len(entry_fs[file_path])

\* C9 as stated: the rename ordering, and a file whose unmask failed keeps
\* both its name and its bytes.
C9_UnmaskThenRenameAsStated ==
    /\ C9_RenameOrdering
    /\ (FileDone /\ ~ret /\ file_path \in DOMAIN entry_fs)
           => fs = entry_fs

\* C9 amended: the rename ordering, and a file whose unmask failed keeps its
\* name, and its bytes too unless the failure was an I/O error raised by the
\* write or the truncate.
C9_UnmaskThenRename ==
    /\ C9_RenameOrdering
    /\ (FileDone /\ ~ret /\ file_path \in DOMAIN entry_fs)
           => /\ DOMAIN fs = DOMAIN entry_fs
              /\ \A q \in DOMAIN fs : q # file_path => fs[q] = entry_fs[q]
              /\ ~CutByIOError => fs = entry_fs

\* a rename raised after a successful unmask: False is returned and the
\* restored content stays under the disguised name
C9_Witness ==
    /\ FileDone
    /\ ret
    /\ RenameRaised
    /\ ~pf_ret
    /\ file_path = NameAMp4
    /\ fs[file_path] = <<1, 2>>

=============================================================================
